---- MODULE Spec2Model ----
(***************************************************************************)
(* batchglm: the training loop of TFEstimator (train/tf/base/estimator.py). *)
(*                                                                         *)
(* TFEstimator.train dispatches on convergence_criteria:                   *)
(*   "step"              a fixed number of global steps,                   *)
(*   "all_converged_ll"  the per-feature loop with a converged mask,       *)
(*   anything else       _train_to_convergence with two loss windows.      *)
(*                                                                         *)
(* Numbers.  Losses, gradients and steps are integers.  A threshold        *)
(* stopping_criteria = n stands for the real number n / Den, so that       *)
(* x < stopping_criteria is x * Den < n.  Gradients are measured in units  *)
(* of the gradient tolerance and parameter steps in units of the step      *)
(* tolerance.  IEEE results of a division by zero (NaN, +inf, -inf) are    *)
(* modelled by the comparison they produce.                                *)
(*                                                                         *)
(* The numpy expressions of the per-feature loop are element-wise: the     *)
(* model evaluates them one feature (lane) at a time, in feature order.    *)
(***************************************************************************)
EXTENDS Integers, Sequences, FiniteSets, TLC

\* ---------------------------------------------------------------- bounds
NumFeatures == 2
MaxStep == 6
MaxWindow == 2
MaxLogged == 2
Den == 2
MaxGiven == 2
MaxNameLen == 2
MaxKeys == 2
MaxStages == 2
MaxObs == 3
\* Times each accessor of a NegativeBinomial object is called.
MaxAccess == 2

Features == 1..NumFeatures

\* Values the evaluated graph hands back (external to the loop).
LossValues == {0, 1, 2}
NoValue == "none"
\* np.inf in a loss window and a NaN p-value: losses and p-values are never
\* negative, so a negative number stands for each.
Inf == -1
NaN == -1

\* ------------------------------------------------- VARIABLES (the state)
VARIABLES
    pc,                     \* position in TFEstimator.train
    convergence_criteria,   \* arguments of the running / last stage
    stopping_criteria,
    loss_window_size,
    global_step,            \* model.global_step
    params,                 \* model_vars.params, one abstract column per feature
    converged,              \* model_vars.converged
    converged_current,      \* local of the all_converged_ll loop
    ll_current,             \* local: norm_neg_log_likelihood per feature
    lane,                   \* features evaluated so far in this iteration
    observed,               \* the lane's inputs, when the run records them
    params_at_convergence,  \* history: {params column} when first converged
    train_step,             \* local: fetched global step
    loss_hist,              \* locals of _train_to_convergence
    previous_loss_hist,
    stop,                   \* what should_stop returned last
    pval,                   \* {the p-value should_stop computed last}
    loss_log,               \* history: losses of this stage, oldest first
    entry_step,             \* history: global step when the stage started
    n_updates,              \* history: train_op runs of this stage
    session,                \* estimator.session
    working_dir,            \* MonitoredTFEstimator.working_dir
    hooks,                  \* hooks built by the running / last initialize
    training_strategy,      \* train_sequence: the list of stage configurations
    stage_idx,              \* train_sequence: idx + 1 of the stage begun last
    stage_log,              \* history: one record per train() call of the sequence
    fn,                     \* the function called last
    args,                   \* its arguments
    ret                     \* what it returned or raised

train_vars == <<pc, convergence_criteria, stopping_criteria, loss_window_size,
                global_step, params, converged, converged_current, ll_current,
                lane, observed, params_at_convergence, train_step, loss_hist,
                previous_loss_hist, stop, pval, loss_log, entry_step, n_updates>>

session_vars == <<session, working_dir, hooks>>
sequence_vars == <<training_strategy, stage_idx, stage_log>>
call_vars == <<fn, args, ret>>

vars == <<train_vars, session_vars, sequence_vars, call_vars>>

ll_vars == <<converged_current, ll_current, lane, observed,
             params_at_convergence>>
window_vars == <<train_step, loss_hist, previous_loss_hist, stop, pval,
                 loss_log>>
count_vars == <<entry_step, n_updates>>

\* ------------------------------------------------------------- helpers
Max(a, b) == IF a >= b THEN a ELSE b

AllFalse == [f \in Features |-> FALSE]

\* An update that flips the stored bits the fed mask sets, for comparison.
convergence_flip(convergence_status) == [f \in Features |-> converged[f] # convergence_status[f]]

\* model_vars.convergence_update fed with convergence_status: the mask is
\* assigned (feeding all False resets it, estimator.py 254-260).
convergence_update(convergence_status) == convergence_status


\* ------------------------------------------------ the per-feature stage
\* Observations the likelihood is normalised by (full_data_model.num_observations).
num_observations == 2

\* Tolerances of pkg_constants, each the unit of the quantity it bounds.
GTOL_LL_BY_FEATURE_LOC == 1
GTOL_LL_BY_FEATURE_SCALE == 1
XTOL_LL_BY_FEATURE_LOC == 1
XTOL_LL_BY_FEATURE_SCALE == 1

\* Trained coefficients: row 1 is the location block, row 2 the scale block,
\* both in x_step (rows) and in jac_train (columns).
idx_train == {1, 2}
idx_train_loc == {1}
idx_train_scale == {2}

\* Samples of what the graph hands back for one feature: a jacobian row that
\* is small, large in one block, or large and negative; a step that is zero
\* or not in one block.
Large == 2 * num_observations
JacRows == {<<0, 0>>, <<Large, 0>>, <<0, Large>>, <<0 - Large, 0>>}
StepColumns == {<<0, 0>>, <<1, 0>>, <<0, 1>>}
ParamValues == {0, 1}
LossThresholds == {1, Den}

RECURSIVE SumOver(_, _)
SumOver(v, idx) ==
    IF idx = {} THEN 0
    ELSE LET i == CHOOSE j \in idx : TRUE
         IN v[i] + SumOver(v, idx \ {i})

\* The train op of the per-feature loop on one feature: the step is applied
\* only where model_vars.converged is false, and updated marks the features
\* that actually changed.
TrainOpUpdated(is_converged) == IF is_converged THEN {FALSE} ELSE BOOLEAN

TrainOpParams(column, updated) ==
    IF updated THEN CHOOSE v \in ParamValues : v # column ELSE column

\* The loss of a feature is a function of its params column: it can move
\* only when the column did.
EvalLoss(ll_prev, updated) == IF updated THEN LossValues ELSE {ll_prev}

\* The counter after one more train op.  The per-feature loop only logs the
\* counter, so counts of MaxLogged and more are all represented by MaxLogged.
GlobalStepAfterUpdate(step) == IF step < MaxLogged THEN step + 1 ELSE MaxLogged

\* estimator.py 350: (ll_prev - ll_current) / ll_prev < stopping_criteria.
\* ll_prev = 0 divides by zero: -inf (below any threshold) when the numerator
\* is negative, +inf or NaN (never below) otherwise.
ll_converged(ll_prev, ll_now, criteria) ==
    IF ll_prev > 0 THEN (ll_prev - ll_now) * Den < criteria * ll_prev
    ELSE IF ll_prev < 0 THEN (ll_prev - ll_now) * Den > criteria * ll_prev
    ELSE ll_prev - ll_now < 0

\* estimator.py 334-346: squared norm of the step of one block (zero when the
\* block is not trained).
x_norm_squared(x_step, idx) ==
    IF idx = {} THEN 0 ELSE SumOver([i \in idx |-> x_step[i] * x_step[i]], idx)

\* estimator.py 363-374: grad_norm * n_obs of one block (zero when the block is
\* not trained): the plain sum of the block's jacobian entries.
grad_sum(jac_train, idx) ==
    IF idx = {} THEN 0 ELSE SumOver(jac_train, idx)

grad_below(jac_train) ==
    /\ grad_sum(jac_train, idx_train_loc)
           < GTOL_LL_BY_FEATURE_LOC * num_observations
    /\ grad_sum(jac_train, idx_train_scale)
           < GTOL_LL_BY_FEATURE_SCALE * num_observations

x_below(x_step) ==
    /\ x_norm_squared(x_step, idx_train_loc)
           < XTOL_LL_BY_FEATURE_LOC * XTOL_LL_BY_FEATURE_LOC
    /\ x_norm_squared(x_step, idx_train_scale)
           < XTOL_LL_BY_FEATURE_SCALE * XTOL_LL_BY_FEATURE_SCALE

\* estimator.py 354-403: the new converged bit of one feature.
ConvergedNoPrev(converged_prev, ll_prev, ll_now, features_updated, jac_train, x_step, criteria) ==
    \/ ll_converged(ll_prev, ll_now, criteria) /\ features_updated
    \/ grad_below(jac_train)
    \/ x_below(x_step)

ConvergedNoUpdated(converged_prev, ll_prev, ll_now, features_updated, jac_train, x_step, criteria) ==
    \/ converged_prev
    \/ ll_converged(ll_prev, ll_now, criteria)
    \/ grad_below(jac_train)
    \/ x_below(x_step)

ConvergedCurrent(converged_prev, ll_prev, ll_now, features_updated, jac_train, x_step, criteria) ==
    \/ converged_prev
    \/ ll_converged(ll_prev, ll_now, criteria) /\ features_updated
    \/ grad_below(jac_train)
    \/ x_below(x_step)

NoObservation == [f |-> 0]

Observation(k, converged_prev, ll_prev, ll_now, features_updated, jac_train, x_step) ==
    [f |-> k, converged_prev |-> converged_prev, ll_prev |-> ll_prev,
     ll_now |-> ll_now, features_updated |-> features_updated,
     jac_train |-> jac_train, x_step |-> x_step]

\* train(convergence_criteria="all_converged_ll"), estimator.py 252-269:
\* reset the mask in model_vars, evaluate the likelihood, clear the local mask.
TrainAllConverged(criteria) ==
    /\ pc = "idle"
    /\ pc' = "ll_loop"
    /\ convergence_criteria' = "all_converged_ll"
    /\ stopping_criteria' = criteria
    /\ converged' = convergence_update(AllFalse)
    /\ \E ll \in [Features -> LossValues] : ll_current' = ll
    /\ converged_current' = AllFalse
    /\ lane' = 0
    /\ observed' = NoObservation
    /\ params_at_convergence' = [f \in Features |-> {}]
    /\ entry_step' = global_step
    /\ n_updates' = 0
    /\ UNCHANGED <<loss_window_size, global_step, params, window_vars>>
    /\ UNCHANGED <<session_vars, sequence_vars, call_vars>>

\* estimator.py 270-308: the loop test succeeds and the train op runs.
RunUpdate ==
    /\ pc = "ll_loop"
    /\ \E f \in Features : ~converged_current[f]
    /\ pc' = "ll_iter"
    /\ lane' = 0
    /\ global_step' = GlobalStepAfterUpdate(global_step)
    /\ observed' = NoObservation
    /\ UNCHANGED <<convergence_criteria, stopping_criteria, loss_window_size,
                   params, converged, converged_current, ll_current,
                   params_at_convergence, window_vars, count_vars>>
    /\ UNCHANGED <<session_vars, sequence_vars, call_vars>>

\* estimator.py 292-403 for feature k: the update of its column, its new loss
\* and jacobian, and its new converged bit.
LaneBody(k, features_updated, x_step, ll_now, jac_train) ==
    LET converged_prev == converged_current[k]
        ll_prev == ll_current[k]
        column == TrainOpParams(params[k], features_updated)
        new == ConvergedCurrent(converged_prev, ll_prev, ll_now,
                                features_updated, jac_train, x_step,
                                stopping_criteria)
    IN  /\ pc = "ll_iter"
        /\ lane = k - 1
        /\ lane' = k
        /\ params' = [params EXCEPT ![k] = column]
        /\ ll_current' = [ll_current EXCEPT ![k] = ll_now]
        /\ converged_current' = [converged_current EXCEPT ![k] = new]
        /\ params_at_convergence' =
               IF new /\ params_at_convergence[k] = {}
               THEN [params_at_convergence EXCEPT ![k] = {column}]
               ELSE params_at_convergence
        /\ UNCHANGED <<pc, convergence_criteria, stopping_criteria,
                       loss_window_size, global_step, converged, window_vars,
                       count_vars>>
        /\ UNCHANGED <<session_vars, sequence_vars, call_vars>>

EvaluateFeature(k) ==
    \E features_updated \in TrainOpUpdated(converged[k]) :
    \E x_step \in StepColumns :
    \E ll_now \in EvalLoss(ll_current[k], features_updated) :
    \E jac_train \in JacRows :
        /\ LaneBody(k, features_updated, x_step, ll_now, jac_train)
        /\ observed' = NoObservation

\* The same step, keeping what the feature was evaluated on.
ObserveFeature(k) ==
    \E features_updated \in TrainOpUpdated(converged[k]) :
    \E x_step \in StepColumns :
    \E ll_now \in EvalLoss(ll_current[k], features_updated) :
    \E jac_train \in JacRows :
        /\ observed = NoObservation
        /\ LaneBody(k, features_updated, x_step, ll_now, jac_train)
        /\ observed' = Observation(k, converged_current[k], ll_current[k],
                                   ll_now, features_updated, jac_train, x_step)

\* estimator.py 409-411: the new mask is written into model_vars.
WriteSkipped == converged

WriteConverged == convergence_update(converged_current)

UpdateConvergence ==
    /\ pc = "ll_iter"
    /\ lane = NumFeatures
    /\ pc' = "ll_loop"
    /\ converged' = WriteConverged
    /\ UNCHANGED <<convergence_criteria, stopping_criteria, loss_window_size,
                   global_step, params, ll_vars, window_vars, count_vars>>
    /\ UNCHANGED <<session_vars, sequence_vars, call_vars>>

\* estimator.py 270: the loop test fails and train returns.
ReturnAllConverged ==
    /\ pc = "ll_loop"
    /\ \A f \in Features : converged_current[f]
    /\ pc' = "idle"
    /\ UNCHANGED <<convergence_criteria, stopping_criteria, loss_window_size,
                   global_step, params, converged, ll_vars, window_vars,
                   count_vars>>
    /\ UNCHANGED <<session_vars, sequence_vars, call_vars>>

\* ------------------------------------------- the stages on the global loss
WindowedCriteria == {"loss_change_to_last", "moving_average",
                     "scaled_moving_average", "absolute_moving_average",
                     "t_test"}
\* A name no branch of train() or should_stop() knows (the one the graph test
\* passes, unit_test/test_graph_nb_glm.py 41).
UnknownCriteria == {"all_converged"}
\* Names train() hands to _train_to_convergence (its else branch).
OtherCriteria == WindowedCriteria \cup {"difference"} \cup UnknownCriteria
WindowSizes == 1..MaxWindow
StepBudgets == 0..MaxStep
\* p-values of the t-test: 0, 1/Den, 1, and NaN.
PValues == {0, 1, Den, NaN}

HasInf(window) == \E i \in 1..Len(window) : window[i] = Inf

RECURSIVE SumSeq(_)
SumSeq(window) ==
    IF window = <<>> THEN 0 ELSE Head(window) + SumSeq(Tail(window))

\* np.mean(window) * len(window), infinite when an entry is.
WindowSum(window) == IF HasInf(window) THEN Inf ELSE SumSeq(window)

\* (a - b) / scale < stopping_criteria for scale > 0, a and b possibly np.inf:
\* inf - b is inf or NaN (not below), a - inf is -inf (below).
DifferenceBelow(a, b, scale, criteria) ==
    IF a = Inf THEN FALSE
    ELSE IF b = Inf THEN TRUE
    ELSE (a - b) * Den < criteria * scale

\* (a - b) / a < stopping_criteria: NaN when a is infinite, -inf when only b
\* is, and a division by zero when a = 0.
ScaledDifferenceBelow(a, b, criteria) ==
    IF a = Inf THEN FALSE
    ELSE IF b = Inf THEN TRUE
    ELSE IF a > 0 THEN (a - b) * Den < criteria * a
    ELSE a - b < 0

AbsDifferenceBelow(a, b, scale, criteria) ==
    IF a = Inf \/ b = Inf THEN FALSE
    ELSE (IF a >= b THEN a - b ELSE b - a) * Den < criteria * scale

\* pval < stopping_criteria (false for NaN).
PValueBelow(p, criteria) == p # NaN /\ p < criteria

PyBool(b) == IF b THEN "True" ELSE "False"

\* estimator.py 103: the guard of should_stop.
WindowBoundary(step, hist, prev) ==
    step % Len(hist) = 0 /\ ~HasInf(prev)

\* estimator.py 102-127, should_stop: "True", "False", "None" when no branch
\* returns, "IndexError" when loss_hist[-2] does not exist.
StopBranches(step, hist, prev, name, criteria, p) ==
    LET N == Len(hist)
    IN  CASE name = "loss_change_to_last" ->
                 IF N < 2 THEN "IndexError"
                 ELSE PyBool(DifferenceBelow(hist[N - 1], hist[N], 1, criteria))
          [] name = "moving_average" ->
                 PyBool(DifferenceBelow(WindowSum(prev), WindowSum(hist), N,
                                        criteria))
          [] name = "scaled_moving_average" ->
                 PyBool(ScaledDifferenceBelow(WindowSum(prev), WindowSum(hist),
                                              criteria))
          [] name = "absolute_moving_average" ->
                 PyBool(AbsDifferenceBelow(WindowSum(prev), WindowSum(hist), N,
                                           criteria))
          [] name = "t_test" -> PyBool(~PValueBelow(p, criteria))
          [] OTHER -> "None"

StopBranchesPBelow(step, hist, prev, name, criteria, p) ==
    IF name = "t_test" THEN PyBool(PValueBelow(p, criteria))
    ELSE StopBranches(step, hist, prev, name, criteria, p)

should_stop_unguarded(step, hist, prev, name, criteria, p) ==
    IF step % Len(hist) = 0
    THEN StopBranches(step, hist, prev, name, criteria, p)
    ELSE "False"

should_stop_p_below(step, hist, prev, name, criteria, p) ==
    IF WindowBoundary(step, hist, prev)
    THEN StopBranchesPBelow(step, hist, prev, name, criteria, p)
    ELSE "False"

should_stop(step, hist, prev, name, criteria, p) ==
    IF WindowBoundary(step, hist, prev)
    THEN StopBranches(step, hist, prev, name, criteria, p)
    ELSE "False"

\* The train op of the stages on the global loss: every feature that is not
\* converged in model_vars moves.
TrainOpAll == [f \in Features |-> TrainOpParams(params[f], ~converged[f])]

\* train() with any criterion but "step" and "all_converged_ll", estimator.py
\* 431-439, and the head of _train_to_convergence, 99-134.
TrainToConvergence(name, window_size, criteria) ==
    /\ pc = "idle"
    /\ pc' = "window_loop"
    /\ convergence_criteria' = name
    /\ stopping_criteria' = criteria
    /\ loss_window_size' = window_size
    /\ previous_loss_hist' = [i \in 1..window_size |-> Inf]
    /\ loss_hist' = [i \in 1..window_size |-> Inf]
    /\ stop' = NoValue
    /\ pval' = {}
    /\ loss_log' = <<>>
    /\ entry_step' = global_step
    /\ n_updates' = 0
    /\ UNCHANGED <<global_step, params, converged, ll_vars, train_step>>
    /\ UNCHANGED <<session_vars, sequence_vars, call_vars>>

\* estimator.py 136-160: one pass of the while loop.  The fetched train_step
\* is the counter after the train op's increment.
WindowIteration ==
    /\ pc = "window_loop"
    /\ global_step < MaxStep
    /\ \E global_loss \in LossValues :
         LET step == global_step + 1
             N == Len(loss_hist)
             prev == IF step % N = 1 THEN loss_hist ELSE previous_loss_hist
             hist == [loss_hist EXCEPT ![((step - 1) % N) + 1] = global_loss]
             tested == /\ convergence_criteria = "t_test"
                       /\ WindowBoundary(step, hist, prev)
         IN  \E p \in (IF tested THEN PValues ELSE {NaN}) :
               LET result == should_stop(step, hist, prev,
                                         convergence_criteria,
                                         stopping_criteria, p)
               IN  /\ global_step' = step
                   /\ train_step' = step
                   /\ params' = TrainOpAll
                   /\ previous_loss_hist' = prev
                   /\ loss_hist' = hist
                   /\ loss_log' = Append(loss_log, global_loss)
                   /\ pval' = IF tested THEN {p} ELSE {}
                   /\ stop' = result
                   /\ n_updates' = n_updates + 1
                   /\ pc' = CASE result = "True" -> "idle"
                              [] result = "IndexError" -> "raised"
                              [] OTHER -> "window_loop"
    /\ UNCHANGED <<convergence_criteria, stopping_criteria, loss_window_size,
                   converged, ll_vars, entry_step>>
    /\ UNCHANGED <<session_vars, sequence_vars, call_vars>>

\* estimator.py 234: the test of the step loop.
StepAtMostBudget(step, criteria) == step * Den <= criteria

StepBelowBudget(step, criteria) == step * Den < criteria

\* train(convergence_criteria="step"), estimator.py 224-232.
EnterStep(budget) ==
    /\ pc = "idle"
    /\ pc' = "step_loop"
    /\ convergence_criteria' = "step"
    /\ stopping_criteria' = budget * Den
    /\ train_step' = global_step
    /\ entry_step' = global_step
    /\ n_updates' = 0
    /\ loss_hist' = <<>>
    /\ previous_loss_hist' = <<>>
    /\ stop' = NoValue
    /\ pval' = {}
    /\ loss_log' = <<>>
    /\ UNCHANGED <<loss_window_size, global_step, params, converged, ll_vars>>
    /\ UNCHANGED <<session_vars, call_vars>>

TrainStep(budget) == EnterStep(budget) /\ UNCHANGED sequence_vars

\* estimator.py 234-251: one pass of the step loop.
StepIteration ==
    /\ pc = "step_loop"
    /\ StepBelowBudget(train_step, stopping_criteria)
    /\ global_step' = global_step + 1
    /\ train_step' = global_step + 1
    /\ params' = TrainOpAll
    /\ n_updates' = n_updates + 1
    /\ UNCHANGED <<pc, convergence_criteria, stopping_criteria,
                   loss_window_size, converged, ll_vars, loss_hist,
                   previous_loss_hist, stop, pval, loss_log, entry_step>>
    /\ UNCHANGED <<session_vars, sequence_vars, call_vars>>

StepReturn ==
    /\ pc = "step_loop"
    /\ ~StepBelowBudget(train_step, stopping_criteria)
    /\ pc' = "idle"
    /\ UNCHANGED <<convergence_criteria, stopping_criteria, loss_window_size,
                   global_step, params, converged, ll_vars, window_vars,
                   count_vars>>
    /\ UNCHANGED <<session_vars, sequence_vars, call_vars>>

\* -------------------------------------------------------- specifications
\* The training variables of an estimator that has not trained yet.
Untrained ==
    /\ pc = "idle"
    /\ convergence_criteria = NoValue
    /\ stopping_criteria = 0
    /\ loss_window_size = 1
    /\ global_step = 0
    /\ params = [f \in Features |-> 0]
    /\ converged = AllFalse
    /\ converged_current = AllFalse
    /\ ll_current = [f \in Features |-> 0]
    /\ lane = 0
    /\ observed = NoObservation
    /\ params_at_convergence = [f \in Features |-> {}]
    /\ train_step = 0
    /\ loss_hist = <<>>
    /\ previous_loss_hist = <<>>
    /\ stop = NoValue
    /\ pval = {}
    /\ loss_log = <<>>
    /\ entry_step = 0
    /\ n_updates = 0

\* TFEstimator.initialize (estimator.py 42-46) has run: a session is open.
OpenSession == session = "open" /\ working_dir = NoValue /\ hooks = {}

NoSequence == training_strategy = <<>> /\ stage_idx = 0 /\ stage_log = <<>>

NoCall == fn = NoValue /\ args = <<>> /\ ret = NoValue

\* A fresh session, nothing trained.
Init == Untrained /\ OpenSession /\ NoSequence /\ NoCall

\* Stages of the per-feature criterion, one after another.
Next ==
    \/ \E criteria \in LossThresholds : TrainAllConverged(criteria)
    \/ RunUpdate
    \/ \E k \in Features : EvaluateFeature(k)
    \/ UpdateConvergence
    \/ ReturnAllConverged

Spec == Init /\ [][Next]_vars

\* The loop is sequential code: it keeps running while it can.
FairSpec == Spec /\ WF_vars(Next)


\* Stages on the global loss (step budgets and loss windows), one after
\* another, from a fresh estimator.
NextLoss ==
    \/ \E name \in OtherCriteria, window_size \in WindowSizes,
          criteria \in LossThresholds :
           TrainToConvergence(name, window_size, criteria)
    \/ WindowIteration
    \/ \E budget \in StepBudgets : TrainStep(budget)
    \/ StepIteration
    \/ StepReturn

SpecLoss == Init /\ [][NextLoss]_vars

\* One evaluation of one feature, from any point of an iteration of the
\* per-feature loop, keeping what the feature was evaluated on.
InitEval ==
    /\ pc = "ll_iter"
    /\ convergence_criteria = "all_converged_ll"
    /\ stopping_criteria \in LossThresholds
    /\ loss_window_size = 1
    /\ global_step = MaxLogged
    /\ params = [f \in Features |-> 0]
    /\ lane \in 0..(NumFeatures - 1)
    /\ converged \in [Features -> BOOLEAN]
    /\ converged_current \in [Features -> BOOLEAN]
    /\ \A f \in Features : converged[f] => converged_current[f]
    /\ \A f \in Features : f > lane => converged_current[f] = converged[f]
    /\ ll_current \in [Features -> LossValues]
    /\ observed = NoObservation
    /\ params_at_convergence =
           [f \in Features |-> IF converged_current[f] THEN {0} ELSE {}]
    /\ train_step = 0
    /\ loss_hist = <<>>
    /\ previous_loss_hist = <<>>
    /\ stop = NoValue
    /\ pval = {}
    /\ loss_log = <<>>
    /\ entry_step = 0
    /\ n_updates = 0
    /\ OpenSession
    /\ NoSequence
    /\ NoCall

NextEval == \E k \in Features : ObserveFeature(k)

SpecEval == InitEval /\ [][NextEval]_vars

\* ------------------------------------------------ sessions (estimator.py)
\* What session.close() of a TensorFlow session can do: return, or raise one
\* of the errors TensorFlow raises on close.
CloseOutcomes == {"ok", "OpError", "RuntimeError"}

\* estimator.py 53: the exceptions close_session handles.
CaughtOpErrorOnly(exc) == exc = "OpError"

Caught(exc) == exc \in {"OpError", "RuntimeError"}

\* estimator.py 47-54, close_session on session sess whose close() does
\* outcome: what it returns ("True" / "False") or the exception it lets through.
close_session(sess, outcome) ==
    IF sess = "None" THEN "False"
    ELSE IF outcome = "ok" THEN "True"
    ELSE IF Caught(outcome) THEN "False"
    ELSE outcome

\* The session object after close() was called on it: closed when close()
\* returned, closed or not when it raised.
SessionAfterClose(sess, outcome) ==
    IF sess = "None" THEN {"None"}
    ELSE IF outcome = "ok" THEN {"closed"}
    ELSE {sess, "closed"}

Returned(value) == value \in {"True", "False", "None"}

\* estimator.py 47-54 as a call.
CloseSession ==
    \E outcome \in CloseOutcomes :
    \E after \in SessionAfterClose(session, outcome) :
        /\ fn' = "close_session"
        /\ args' = [session |-> session, close |-> outcome]
        /\ ret' = [value |-> close_session(session, outcome),
                   close_result |-> close_session(session, outcome),
                   session_created |-> FALSE]
        /\ session' = after
        /\ UNCHANGED <<train_vars, working_dir, hooks, sequence_vars>>

\* estimator.py 42-46, TFEstimator.initialize.
Initialize ==
    \E outcome \in CloseOutcomes :
    \E after \in SessionAfterClose(session, outcome) :
        LET closed == close_session(session, outcome)
        IN  /\ fn' = "initialize"
            /\ args' = [session |-> session, close |-> outcome]
            /\ ret' = [value |-> IF Returned(closed) THEN "None" ELSE closed,
                       close_result |-> closed,
                       session_created |-> Returned(closed)]
            /\ session' = IF Returned(closed) THEN "open" ELSE after
            /\ hooks' = {}
            /\ UNCHANGED <<train_vars, working_dir, sequence_vars>>

\* The arguments of MonitoredTFEstimator.initialize that request saving data
\* (estimator.py 521-528), and the two that add a stop hook (544-551).
SavingOptions == {"save_checkpoint_steps", "save_checkpoint_secs",
                  "save_summaries_steps", "save_summaries_secs",
                  "export_steps", "export_secs"}
StopOptions == {"stop_at_step", "stop_below_loss_change"}
WorkingDirs == {NoValue, "dir"}
\* The calls made: those that pass at most MaxGiven of these arguments.
GivenSets ==
    {given \in SUBSET (SavingOptions \cup StopOptions) :
        Cardinality(given) <= MaxGiven}

\* estimator.py 521-529: the test that raises ValueError.  given is the set of
\* the arguments that are not None.
NeedsDirAllGiven(dir, given) == dir = NoValue /\ SavingOptions \subseteq given

NeedsWorkingDir(dir, given) ==
    dir = NoValue /\ ~(\A val \in SavingOptions : val \notin given)

\* estimator.py 535-551: the hooks of the new session.
BuiltHooks(given) ==
    {"NanTensorHook"}
        \cup (IF "export_secs" \in given \/ "export_steps" \in given
              THEN {"TimedRunHook"} ELSE {})
        \cup (IF "stop_at_step" \in given THEN {"StopAtStepHook"} ELSE {})
        \cup (IF "stop_below_loss_change" \in given
              THEN {"StopAtLossHook"} ELSE {})

\* estimator.py 517-568, MonitoredTFEstimator.initialize.
MonitoredInitialize(dir, given, use_monitored_session) ==
    \E outcome \in CloseOutcomes :
    \E after \in SessionAfterClose(session, outcome) :
        LET closed == close_session(session, outcome)
            raised == IF ~Returned(closed) THEN closed
                      ELSE IF NeedsWorkingDir(dir, given) THEN "ValueError"
                      ELSE "None"
        IN  /\ fn' = "MonitoredTFEstimator.initialize"
            /\ args' = [session |-> session, close |-> outcome,
                        working_dir |-> dir, given |-> given,
                        use_monitored_session |-> use_monitored_session]
            /\ ret' = [value |-> raised, close_result |-> closed,
                       session_created |-> raised = "None"]
            /\ working_dir' = IF Returned(closed) THEN dir ELSE working_dir
            /\ session' = IF raised = "None" THEN "open" ELSE after
            /\ hooks' = IF raised = "None" /\ use_monitored_session
                        THEN BuiltHooks(given) ELSE {}
            /\ UNCHANGED <<train_vars, sequence_vars>>

\* An estimator right after __init__ (estimator.py 36-40, 446-449).
InitSession ==
    /\ Untrained
    /\ session = "None"
    /\ working_dir = NoValue
    /\ hooks = {}
    /\ NoSequence
    /\ NoCall

NextSession ==
    \/ CloseSession
    \/ Initialize
    \/ \E dir \in WorkingDirs, given \in GivenSets,
          use_monitored_session \in BOOLEAN :
           MonitoredInitialize(dir, given, use_monitored_session)

SpecSession == InitSession /\ [][NextSession]_vars

\* ------------------------------------------------------------ get(key)
\* Parameter names are strings: sequences of characters.
Chars == {"a", "m", "u"}
Names == UNION {[1..n -> Chars] : n \in 1..MaxNameLen}
\* key is one name (a str) or a list of names.
StrKeys == {[kind |-> "str", name |-> name] : name \in Names}
ListKeys ==
    {[kind |-> "list", names |-> names] :
        names \in UNION {[1..n -> Names] : n \in 0..MaxKeys}}
Keys == StrKeys \cup ListKeys
\* The keys of param_shapes(): "a" and "mu", as the estimators of the tests
\* export them, or "m", "u" and "mu".
ParamShapes == {{<<"a">>, <<"m", "u">>}, {<<"m">>, <<"u">>, <<"m", "u">>}}

\* list(key): the characters of a str, each a str of length one, or the
\* elements of a list.
ListOfKey(key) ==
    IF key.kind = "str"
    THEN [i \in 1..Len(key.name) |-> <<key.name[i]>>]
    ELSE key.names

\* The names key asks for.
Requested(key) ==
    IF key.kind = "str" THEN {key.name}
    ELSE {key.names[i] : i \in 1..Len(key.names)}

\* The value of key, fetched from the attributes of the model (the
\* parameters are its attributes): a single value for a str, a dict for a
\* list, AttributeError when a name is no attribute.
Fetch(key, shapes) ==
    IF \E name \in Requested(key) : name \notin shapes
    THEN [raised |-> "AttributeError", kind |-> "none", names |-> {},
          fetched |-> 0]
    ELSE [raised |-> "None",
          kind |-> IF key.kind = "str" THEN "single" ELSE "dict",
          names |-> Requested(key),
          fetched |-> Cardinality(Requested(key))]

UnknownParameter ==
    [raised |-> "ValueError", kind |-> "none", names |-> {}, fetched |-> 0]

\* models/base.py 290-304, BasicModel.get.
BasicModel_get(key, shapes) ==
    IF \E i \in 1..Len(ListOfKey(key)) : ListOfKey(key)[i] \notin shapes
    THEN UnknownParameter
    ELSE Fetch(key, shapes)

\* estimator.py 66-80, TFEstimator.get and _get_unsafe.
TFEstimator_get(key, shapes) ==
    IF key.kind = "str"
    THEN IF key.name \notin shapes THEN UnknownParameter
         ELSE Fetch(key, shapes)
    ELSE IF \E i \in 1..Len(key.names) : key.names[i] \notin shapes
         THEN UnknownParameter
         ELSE Fetch(key, shapes)

CallBasicGet ==
    /\ fn' = "BasicModel.get"
    /\ ret' = BasicModel_get(args.key, args.param_shapes)
    /\ UNCHANGED <<train_vars, session_vars, sequence_vars, args>>

CallTFGet ==
    /\ fn' = "TFEstimator.get"
    /\ ret' = TFEstimator_get(args.key, args.param_shapes)
    /\ UNCHANGED <<train_vars, session_vars, sequence_vars, args>>

InitGet ==
    /\ Untrained
    /\ OpenSession
    /\ NoSequence
    /\ fn = NoValue
    /\ ret = NoValue
    /\ \E key \in Keys, shapes \in ParamShapes :
           args = [key |-> key, param_shapes |-> shapes]

NextGet == CallBasicGet \/ CallTFGet

SpecGet == InitGet /\ [][NextGet]_vars

\* ----------------------------------- train_sequence (models/base.py 500)
\* A stage configuration d: the keyword arguments of one train() call.
StageConfigs ==
    {[convergence_criteria |-> "step", stopping_criteria |-> budget] :
        budget \in StepBudgets}
Strategies == UNION {[1..n -> StageConfigs] : n \in 0..MaxStages}

\* for idx, d in enumerate(training_strategy): the d of the i-th pass.
StageReversed(strategy, i) == strategy[Len(strategy) + 1 - i]

StageToRun(strategy, i) == strategy[i]

\* models/base.py 522-524: the next pass of the loop calls self.train(**d);
\* the loop is sequential, so the stage before has returned.
BeginStage ==
    /\ pc = "idle"
    /\ stage_idx < Len(training_strategy)
    /\ LET d == StageToRun(training_strategy, stage_idx + 1)
       IN  /\ EnterStep(d.stopping_criteria)
           /\ stage_log' = Append(stage_log, d)
    /\ stage_idx' = stage_idx + 1
    /\ UNCHANGED training_strategy

\* session.run raises inside a stage (estimator.py 236-239): nothing in train
\* or in train_sequence handles it, the exception leaves both.
StageRaises ==
    /\ pc = "step_loop"
    /\ pc' = "raised"
    /\ UNCHANGED <<convergence_criteria, stopping_criteria, loss_window_size,
                   global_step, params, converged, ll_vars, window_vars,
                   count_vars>>
    /\ UNCHANGED <<session_vars, sequence_vars, call_vars>>

InitSequence ==
    /\ Untrained
    /\ OpenSession
    /\ NoCall
    /\ training_strategy \in Strategies
    /\ stage_idx = 0
    /\ stage_log = <<>>

NextSequence ==
    \/ BeginStage
    \/ StepIteration
    \/ StepReturn
    \/ StageRaises

SpecSequence == InitSequence /\ [][NextSequence]_vars

\* --------------------------------- the moment estimator (train/tf/nb/util.py)
\* Every op of fit_mme reduces along the observation axis and keeps the
\* feature axis, so the column of each feature is computed on its own: the
\* model computes one column.  Real numbers are fractions <<num, den>>.
Counts == {0, 1, 3}
Columns == UNION {[1..n -> Counts] : n \in 1..MaxObs}
\* weights=None, or one positive weight per observation.
NoWeights == <<>>
WeightValues == {1, 2}
Labels == {"x", "y"}
\* dtype.max, the default replace_values, and exp(log(dtype.max) / 8).
DtypeMax == 65536
ClipMax == CHOOSE v \in 1..16 : v * v * v * v * v * v * v * v = DtypeMax

RECURSIVE GCD(_, _)
GCD(m, n) == IF n = 0 THEN m ELSE GCD(n, m % n)

\* The fraction num / den (den >= 0) in lowest terms; 0 / 0 is NaN.
Frac(num, den) ==
    LET g == GCD(IF num < 0 THEN 0 - num ELSE num, den)
    IN  IF g = 0 THEN <<0, 0>> ELSE <<num \div g, den \div g>>

FracLess(a, b) == a[1] * b[2] < b[1] * a[2]
FracEq(a, b) == a[1] * b[2] = b[1] * a[2]
FracSub(a, b) == Frac(a[1] * b[2] - b[1] * a[2], a[2] * b[2])
FracSquare(a) == Frac(a[1] * a[1], a[2] * a[2])
FracDiv(a, b) == Frac(a[1] * b[2], a[2] * b[1])

\* reduce_weighted_mean (batchglm.train.tf.ops): the weighted average along
\* the observation axis, the plain average without weights.
WeightsOrOnes(X, weights) ==
    IF weights = NoWeights THEN [i \in 1..Len(X) |-> 1] ELSE weights

reduce_weighted_mean(X, weights) ==
    LET w == WeightsOrOnes(X, weights)
    IN  Frac(SumSeq([i \in 1..Len(X) |-> w[i] * X[i]]), SumSeq(w))

\* util.py 321-325: the weighted average of tf.square(X - mean), each square
\* being (den * x - num)^2 / den^2.
weighted_variance(X, weights, mean) ==
    LET w == WeightsOrOnes(X, weights)
    IN  Frac(SumSeq([i \in 1..Len(X) |->
                        w[i] * (mean[2] * X[i] - mean[1])
                             * (mean[2] * X[i] - mean[1])]),
             mean[2] * mean[2] * SumSeq(w))

\* util.py 330: tf.less(mean, variance).
LessOrEqual(mean, variance) == ~FracLess(variance, mean)

Less(mean, variance) == FracLess(mean, variance)

\* util.py 319-335, fit_mme with the default replace_values.
fit_mme(X, weights) ==
    LET mean == reduce_weighted_mean(X, weights)
        variance == weighted_variance(X, weights, mean)
        replace_values == <<DtypeMax, 1>>
    IN  [r |-> IF Less(mean, variance)
               THEN FracDiv(FracSquare(mean), FracSub(variance, mean))
               ELSE replace_values,
         mean |-> mean]

\* exp(tf.clip_by_value(tf.log(x), log(1), log(dtype.max) / 8)), util.py
\* 268-272 and 283-287: log and exp are increasing and inverse to each other,
\* so the value is x clipped to [1, exp(log(dtype.max) / 8)]; log(0) = -inf
\* is clipped to log(1).
exp_clipped_log(x) ==
    IF FracLess(x, <<1, 1>>) THEN <<1, 1>>
    ELSE IF FracLess(<<ClipMax, 1>>, x) THEN <<ClipMax, 1>>
    ELSE x

\* util.py 254-300, fit.  The log-variables r_var and mu_var are given by
\* their exponentials; the second clip (276-280, 291-295) leaves a value of
\* the first unchanged.
fit(X, weights, optimizable) ==
    LET distribution == fit_mme(X, weights)
    IN  IF optimizable
        THEN [r |-> exp_clipped_log(distribution.r),
              mean |-> exp_clipped_log(distribution.mean),
              exp_r_var |-> exp_clipped_log(distribution.r),
              exp_mu_var |-> exp_clipped_log(distribution.mean)]
        ELSE distribution

\* tf.unique(partitions), util.py 189: the labels in order of first
\* appearance, and for each observation the position of its label in them.
RECURSIVE UniqueFrom(_, _)
UniqueFrom(partitions, seen) ==
    IF partitions = <<>> THEN seen
    ELSE IF \E i \in 1..Len(seen) : seen[i] = Head(partitions)
         THEN UniqueFrom(Tail(partitions), seen)
         ELSE UniqueFrom(Tail(partitions), Append(seen, Head(partitions)))

uniques(partitions) == UniqueFrom(partitions, <<>>)

first_partition(partitions) == [o \in 1..Len(partitions) |-> 1]

partition_index(partitions) ==
    [o \in 1..Len(partitions) |->
        CHOOSE i \in 1..Len(uniques(partitions)) :
            uniques(partitions)[i] = partitions[o]]

\* tf.gather(values, tf.where(tf.equal(index, i))), util.py 192-195: the
\* entries of values where index is i, in their order.
RECURSIVE GatherWhere(_, _, _)
GatherWhere(values, index, i) ==
    IF values = <<>> THEN <<>>
    ELSE (IF Head(index) = i THEN <<Head(values)>> ELSE <<>>)
             \o GatherWhere(Tail(values), Tail(index), i)

\* util.py 191-204, fit_part(i).
fit_part(X, weights, index, i) ==
    fit(GatherWhere(X, index, i),
        IF weights = NoWeights THEN NoWeights ELSE GatherWhere(weights, index, i),
        FALSE)

\* util.py 188-234, fit_partitioned: one fit per unique label, gathered back
\* to the observations (212-214).
fit_partitioned(X, partitions, weights) ==
    LET index == partition_index(partitions)
        parts == [i \in 1..Len(uniques(partitions)) |->
                     fit_part(X, weights, index, i)]
    IN  [r |-> [o \in 1..Len(X) |-> parts[index[o]].r],
         mean |-> [o \in 1..Len(X) |-> parts[index[o]].mean]]

CallFitMme ==
    /\ fn = NoValue
    /\ fn' = "fit_mme"
    /\ args' = [args EXCEPT !.optimizable = FALSE]
    /\ ret' = fit_mme(args.X, args.weights)
    /\ UNCHANGED <<train_vars, session_vars, sequence_vars>>

CallFit(optimizable) ==
    /\ fn = NoValue
    /\ fn' = "fit"
    /\ args' = [args EXCEPT !.optimizable = optimizable]
    /\ ret' = fit(args.X, args.weights, optimizable)
    /\ UNCHANGED <<train_vars, session_vars, sequence_vars>>

CallFitPartitioned ==
    /\ fn = NoValue
    /\ fn' = "fit_partitioned"
    /\ args' = [args EXCEPT !.optimizable = FALSE]
    /\ ret' = fit_partitioned(args.X, args.partitions, args.weights)
    /\ UNCHANGED <<train_vars, session_vars, sequence_vars>>

InitFit ==
    /\ Untrained
    /\ OpenSession
    /\ NoSequence
    /\ fn = NoValue
    /\ ret = NoValue
    /\ \E X \in Columns :
       \E weights \in {NoWeights} \cup [1..Len(X) -> WeightValues] :
       \E partitions \in [1..Len(X) -> Labels] :
           args = [X |-> X, weights |-> weights, partitions |-> partitions,
                   optimizable |-> FALSE]

NextFit ==
    \/ CallFitMme
    \/ \E optimizable \in BOOLEAN : CallFit(optimizable)
    \/ CallFitPartitioned

SpecFit == InitFit /\ [][NextFit]_vars

\* ------------------------- the analytic hessian (base_glm_all/hessians.py)
\* The einsums keep the feature axis, so the hessian of each feature is
\* computed from that feature's column of the weights: the model computes one
\* feature.  A matrix is a sequence of rows.
HessianObservations == {1, 2}
NoConstraints == <<>>
\* design_loc: observations x 2 coefficients; design_scale: observations x 1.
DesignsLoc == [HessianObservations -> [{1, 2} -> {0, 1}]]
DesignsScale == [HessianObservations -> [{1} -> {1, 2}]]
\* constraints_loc: None, 2 x 1 or 2 x 2; constraints_scale: None or 1 x 1.
ConstraintsLoc == {NoConstraints, <<<<1>>, <<1>>>>, <<<<1, 0>>, <<1, 1>>>>}
ConstraintsScale == {NoConstraints, <<<<2>>>>}
\* The weights of one feature by observation, as _weight_hessian_aa, _bb and
\* _ab hand them back (three different columns for every draw).
WeightColumns == [HessianObservations -> {1, 2}]
WeightsOf(W) ==
    [aa |-> [o \in HessianObservations |-> 0 - W[o]],
     bb |-> [o \in HessianObservations |-> 0 - W[o] - 1],
     ab |-> [o \in HessianObservations |-> W[o] * W[o] - 2]]

NumCols(M) == Len(M[1])

\* tf.matmul(design, constraints).
matmul(M, K) ==
    [o \in 1..Len(M) |->
        [k \in 1..NumCols(K) |->
            SumSeq([c \in 1..Len(K) |-> M[o][c] * K[c][k]])]]

\* hessians.py 45-48 and 71-74, 101-109: XH.
Unprojected(design, constraints) == design

Projected(design, constraints) ==
    IF constraints # NoConstraints THEN matmul(design, constraints)
    ELSE design

\* hessians.py 50-52: tf.einsum('ofc,od->fcd', tf.einsum('of,oc->ofc', W, L), R)
\* for one feature.
Hblock(W, L, R) ==
    LET WL == [o \in 1..Len(L) |-> [c \in 1..NumCols(L) |-> W[o] * L[o][c]]]
    IN  [c \in 1..NumCols(L) |->
            [d \in 1..NumCols(R) |->
                SumSeq([o \in 1..Len(L) |-> WL[o][c] * R[o][d]])]]

\* hessians.py 120: tf.transpose(H_ab, perm=[0, 2, 1]).
NotTransposed(M) == M

Transposed(M) ==
    [d \in 1..NumCols(M) |-> [c \in 1..Len(M) |-> M[c][d]]]

\* hessians.py 121-125: the two concatenations.
Concatenated(H_aa, H_ab, H_ba, H_bb) ==
    [c \in 1..Len(H_aa) |-> H_aa[c] \o H_ab[c]]
        \o [d \in 1..Len(H_bb) |-> H_ba[d] \o H_bb[d]]

\* hessians.py 116-133, hessian_analytic: the hessian H and the blocks built.
hessian_analytic(model) ==
    LET XHloc == Projected(model.design_loc, model.constraints_loc)
        XHscale == Projected(model.design_scale, model.constraints_scale)
        H_aa == Hblock(model.W.aa, XHloc, XHloc)
        H_bb == Hblock(model.W.bb, XHscale, XHscale)
        H_ab == Hblock(model.W.ab, XHloc, XHscale)
        H_ba == Transposed(H_ab)
    IN  IF model.compute_a /\ model.compute_b
        THEN [H |-> Concatenated(H_aa, H_ab, H_ba, H_bb),
              blocks |-> [aa |-> H_aa, bb |-> H_bb, ab |-> H_ab]]
        ELSE IF model.compute_a /\ ~model.compute_b
        THEN [H |-> H_aa, blocks |-> [aa |-> H_aa]]
        ELSE IF ~model.compute_a /\ model.compute_b
        THEN [H |-> H_bb, blocks |-> [bb |-> H_bb]]
        ELSE [H |-> 0, blocks |-> <<>>]

CallHessianAnalytic ==
    /\ fn = NoValue
    /\ fn' = "hessian_analytic"
    /\ ret' = hessian_analytic(args)
    /\ UNCHANGED <<train_vars, session_vars, sequence_vars, args>>

InitHessian ==
    /\ Untrained
    /\ OpenSession
    /\ NoSequence
    /\ fn = NoValue
    /\ ret = NoValue
    /\ \E W \in WeightColumns, design_loc \in DesignsLoc,
          design_scale \in DesignsScale, constraints_loc \in ConstraintsLoc,
          constraints_scale \in ConstraintsScale,
          compute_a \in BOOLEAN, compute_b \in BOOLEAN :
           args = [W |-> WeightsOf(W), design_loc |-> design_loc,
                   design_scale |-> design_scale,
                   constraints_loc |-> constraints_loc,
                   constraints_scale |-> constraints_scale,
                   compute_a |-> compute_a, compute_b |-> compute_b]

NextHessian == CallHessianAnalytic

SpecHessian == InitHessian /\ [][NextHessian]_vars

\* ------------------------------------------------- the per-feature claims

\* C1: within one per-feature stage, once a feature is converged its params
\* column stays what it was when the feature converged, whatever later
\* iterations do.
C1_ConvergedColumnFrozen ==
    \A f \in Features :
        /\ converged_current[f] => params_at_convergence[f] # {}
        /\ params_at_convergence[f] # {}
               => params_at_convergence[f] = {params[f]}

\* A feature that converged after being updated is evaluated again by a later
\* iteration.
C1_Witness ==
    \E f \in Features :
        /\ pc = "ll_iter"
        /\ lane >= f
        /\ converged[f]
        /\ params_at_convergence[f] = {1}

\* C2: inside a stage the converged mask only grows, model_vars holds the
\* loop's mask at every iteration boundary, and a bit of model_vars goes from
\* true to false only in the reset that starts a stage.
C2_MaskMonotonic ==
    [][ /\ pc' = "ll_loop" => converged' = converged_current'
        /\ \A f \in Features :
               /\ (converged[f] /\ ~converged'[f])
                      => (pc = "idle" /\ pc' = "ll_loop")
               /\ (pc # "idle" /\ converged_current[f])
                      => converged_current'[f] ]_vars

\* A second stage, after its reset, with the mask partly true again.
C2_Witness ==
    /\ pc = "ll_iter"
    /\ entry_step > 0
    /\ \E f \in Features : converged[f]
    /\ \E f \in Features : ~converged[f]

\* C3: the new converged bit of a feature is the OR of the previous bit, of
\* (loss plateau AND updated), of (both gradients below tolerance) and of
\* (both step norms below tolerance); a plateau alone does not mark a feature
\* that was not updated, the gradient branch needs no update.
C3_ConvergedFormula ==
    observed.f # 0 =>
        LET o == observed
            plateau ==
                \/ /\ o.ll_prev > 0
                   /\ (o.ll_prev - o.ll_now) * Den < stopping_criteria * o.ll_prev
                \/ o.ll_prev = 0 /\ o.ll_now > 0
            grad == /\ o.jac_train[1] < GTOL_LL_BY_FEATURE_LOC * num_observations
                    /\ o.jac_train[2] < GTOL_LL_BY_FEATURE_SCALE * num_observations
            step == /\ o.x_step[1] * o.x_step[1]
                         < XTOL_LL_BY_FEATURE_LOC * XTOL_LL_BY_FEATURE_LOC
                    /\ o.x_step[2] * o.x_step[2]
                         < XTOL_LL_BY_FEATURE_SCALE * XTOL_LL_BY_FEATURE_SCALE
            new == converged_current[o.f]
        IN  /\ new <=> (o.converged_prev \/ (plateau /\ o.features_updated)
                           \/ grad \/ step)
            /\ (~o.converged_prev /\ ~o.features_updated /\ ~grad /\ ~step)
                   => ~new
            /\ grad => new

\* A feature on a loss plateau that was not updated stays unconverged.
C3_Witness ==
    /\ observed.f # 0
    /\ observed.ll_prev > 0
    /\ observed.ll_now = observed.ll_prev
    /\ ~observed.features_updated
    /\ ~observed.converged_prev
    /\ ~converged_current[observed.f]

\* C4: every per-feature stage that is running reaches its end.
C4_StageTerminates == (pc = "ll_loop") ~> (pc = "idle")

\* C5: a feature whose loss increased (here from a positive loss, so that the
\* relative change is an ordinary number) is not marked converged on account
\* of its loss change.
C5_IncreaseNotConverged ==
    ( /\ observed.f # 0
      /\ observed.ll_prev > 0
      /\ observed.ll_now > observed.ll_prev
      /\ ~observed.converged_prev
      /\ ~grad_below(observed.jac_train)
      /\ ~x_below(observed.x_step) )
        => ~converged_current[observed.f]


\* ---------------------------------------------- the claims on loss windows
Evaluated == stop # NoValue

\* The last n losses of this stage, oldest first.
LastLosses(from, to) == SubSeq(loss_log, from, to)

\* C6: under a windowed criterion should_stop returns False at every step
\* that is not a multiple of N and whenever the previous window still holds
\* an initial infinity, and the stage never stops before N losses of this
\* stage were recorded (a constant loss included).
C6_NoStopBeforeFullWindow ==
    (convergence_criteria \in WindowedCriteria /\ Evaluated) =>
        /\ (train_step % loss_window_size # 0 \/ HasInf(previous_loss_hist))
               => stop = "False"
        /\ stop = "True" => Len(loss_log) >= loss_window_size
        /\ pc = "idle" <=> stop = "True"

\* A loss that is constant from the first step stops the stage only once two
\* full windows exist.
C6_Witness ==
    /\ convergence_criteria = "moving_average"
    /\ loss_window_size = 2
    /\ stop = "True"
    /\ loss_log = <<1, 1, 1, 1>>

\* C7: for every window size N >= 1, at every step that is a multiple of N
\* and has 2N losses of this stage behind it, previous_loss_hist holds the
\* losses of steps s-2N+1 .. s-N and loss_hist those of steps s-N+1 .. s.
C7_WindowsRollEveryN ==
    LET N == loss_window_size
        n == Len(loss_log)
    IN  ( /\ convergence_criteria \in OtherCriteria
          /\ Evaluated
          /\ train_step % N = 0
          /\ n >= 2 * N )
            => /\ previous_loss_hist = LastLosses(n - 2 * N + 1, n - N)
               /\ loss_hist = LastLosses(n - N + 1, n)

C9_DifferenceStops ==
    LET n == Len(loss_log)
    IN  ( /\ convergence_criteria = "difference"
          /\ Evaluated
          /\ n >= 2
          /\ (loss_log[n] - loss_log[n - 1]) * Den < stopping_criteria )
            => pc = "idle"

\* C10: a step stage with budget B entered at global step s0 runs exactly
\* max(0, B - s0) train ops, one increment of the global step each, none
\* once the counter has reached B, and returns with the counter at
\* max(s0, B).
C10_StepBudget ==
    convergence_criteria = "step" =>
        LET B == stopping_criteria \div Den
        IN  /\ global_step = entry_step + n_updates
            /\ train_step = global_step
            /\ n_updates <= Max(0, B - entry_step)
            /\ pc = "idle" => /\ n_updates = Max(0, B - entry_step)
                              /\ global_step = Max(entry_step, B)

\* A step stage entered after earlier steps that ran several updates.
C10_Witness ==
    /\ convergence_criteria = "step"
    /\ pc = "idle"
    /\ entry_step >= 1
    /\ n_updates >= 2

\* ------------------------------------------------ the claims on error paths

\* The names train() documents or handles: the docstring's list (estimator.py
\* 187-197), the per-feature criterion (252) and the branches of should_stop.
RecognisedCriteria ==
    {"step", "difference", "all_converged_ll"} \cup WindowedCriteria

\* C11: a stage started with a convergence_criteria name that is not a
\* recognised one raises at once: it never runs a train op, and the global
\* step and the params stay what they were when train was called.
C11_UnknownCriterionRaises ==
    (convergence_criteria \notin RecognisedCriteria \cup {NoValue}) =>
        /\ pc = "raised"
        /\ n_updates = 0
        /\ global_step = entry_step

\* C12: MonitoredTFEstimator.initialize raises ValueError exactly when
\* working_dir is None and one of the six saving arguments is given; when it
\* raises, no session was created and no hook was built.
C12_ValueErrorIffNoWorkingDir ==
    fn = "MonitoredTFEstimator.initialize" =>
        /\ ret.value = "ValueError"
               <=> /\ args.working_dir = NoValue
                   /\ args.given \cap SavingOptions # {}
        /\ ret.value = "ValueError"
               => /\ ~ret.session_created
                  /\ session \in SessionAfterClose(args.session, args.close)
                  /\ hooks = {}

\* The call raised while an open session and only export_secs were given.
C12_Witness ==
    /\ fn = "MonitoredTFEstimator.initialize"
    /\ args.session = "open"
    /\ args.given = {"export_secs"}
    /\ ret.value = "ValueError"

C13_GetRaisesIffUnknown ==
    fn \in {"BasicModel.get", "TFEstimator.get"} =>
        LET unknown == \E name \in Requested(args.key) :
                           name \notin args.param_shapes
        IN  /\ ret.raised = "ValueError" <=> unknown
            /\ ret.raised = "ValueError" => ret.fetched = 0
            /\ ~unknown =>
                   /\ ret.raised = "None"
                   /\ ret.names = Requested(args.key)
                   /\ ret.kind = IF args.key.kind = "str" THEN "single"
                                 ELSE "dict"

\* C15: train_sequence calls train(**d) once per stage, in list order, the
\* next stage only after the one before has returned; nothing changes params
\* or the global step outside a stage, so a stage starts from what the stage
\* before left; after a stage has raised nothing runs any more.
C15_StagesInOrder ==
    [][ /\ stage_log' = [i \in 1..stage_idx' |-> training_strategy[i]]
        /\ stage_idx' # stage_idx =>
               /\ pc = "idle"
               /\ stage_idx' = stage_idx + 1
               /\ pc' = "step_loop"
               /\ stopping_criteria' =
                      training_strategy[stage_idx'].stopping_criteria * Den
               /\ entry_step' = global_step
        /\ pc \in {"idle", "raised"} =>
               /\ params' = params
               /\ global_step' = global_step
        /\ pc # "raised" ]_vars

\* The second stage of a sequence has returned, after running updates on top
\* of the steps of the first.
C15_Witness ==
    /\ stage_idx = 2
    /\ Len(training_strategy) = 2
    /\ pc = "idle"
    /\ entry_step > 0
    /\ n_updates > 0
    /\ training_strategy[1] # training_strategy[2]

\* ------------------------------------------ the claims on the moment fit
\* Weighted sums of the call's column: of the weights, of the counts and of
\* the squared counts.
SumW == SumSeq(WeightsOrOnes(args.X, args.weights))
SumWX ==
    SumSeq([i \in 1..Len(args.X) |->
               WeightsOrOnes(args.X, args.weights)[i] * args.X[i]])
SumWXX ==
    SumSeq([i \in 1..Len(args.X) |->
               WeightsOrOnes(args.X, args.weights)[i] * args.X[i] * args.X[i]])

\* C16: fit and fit_mme return the weighted average as mean, and with
\* variance the weighted average of squared deviations (the weighted average
\* of squares minus the squared mean), r = mean^2 / (variance - mean) when
\* variance > mean and r = the largest value of the dtype otherwise, the
\* all-zero column included.
C16_MomentEstimator ==
    (fn \in {"fit_mme", "fit"} /\ ~args.optimizable) =>
        /\ FracEq(ret.mean, <<SumWX, SumW>>)
        /\ IF SumW * SumWXX - SumWX * SumWX > SumWX * SumW
           THEN FracEq(ret.r, <<SumWX * SumWX,
                                SumW * SumWXX - SumWX * SumWX - SumWX * SumW>>)
           ELSE ret.r = <<DtypeMax, 1>>

\* An overdispersed column: mean 3/2, variance 9/4, r = 3.
C16_Witness ==
    /\ fn = "fit_mme"
    /\ args.X = <<0, 3>>
    /\ args.weights = NoWeights
    /\ FracEq(ret.r, <<3, 1>>)

\* The observations that carry the label of observation o, in their order.
RECURSIVE SameLabel(_, _, _)
SameLabel(values, partitions, label) ==
    IF values = <<>> THEN <<>>
    ELSE IF Head(partitions) = label
         THEN <<Head(values)>> \o SameLabel(Tail(values), Tail(partitions), label)
         ELSE SameLabel(Tail(values), Tail(partitions), label)

FitOfLabel(label) ==
    fit(SameLabel(args.X, args.partitions, label),
        IF args.weights = NoWeights THEN NoWeights
        ELSE SameLabel(args.weights, args.partitions, label),
        FALSE)

\* C17: fit_partitioned returns, at every observation, the r and mean that
\* fit computes over the observations with the same label; with a single
\* label that is plain fit over the whole column.
C17_PartitionedIsFitPerLabel ==
    fn = "fit_partitioned" =>
        /\ \A o \in 1..Len(args.X) :
               /\ ret.r[o] = FitOfLabel(args.partitions[o]).r
               /\ ret.mean[o] = FitOfLabel(args.partitions[o]).mean
        /\ (\A o \in 1..Len(args.X) : args.partitions[o] = args.partitions[1])
               => \A o \in 1..Len(args.X) :
                      /\ ret.r[o] = fit(args.X, args.weights, FALSE).r
                      /\ ret.mean[o] = fit(args.X, args.weights, FALSE).mean

\* Two interleaved partitions with different fits.
C17_Witness ==
    /\ fn = "fit_partitioned"
    /\ args.partitions = <<"y", "x", "y">>
    /\ args.X = <<0, 1, 3>>
    /\ ret.mean[1] # ret.mean[2]
    /\ ret.mean[1] = ret.mean[3]
    /\ FracEq(ret.r[1], <<3, 1>>)
    /\ ret.r[2] = <<DtypeMax, 1>>

\* C18: fit in optimizable mode returns log-variables within
\* [log(smallest positive), log(max) / 8] whose exponentials are the r and the
\* mean of the moment estimator.
C18_OptimizableRecovers ==
    (fn = "fit" /\ args.optimizable) =>
        /\ FracLess(<<0, 1>>, ret.exp_r_var)
        /\ ~FracLess(<<ClipMax, 1>>, ret.exp_r_var)
        /\ FracLess(<<0, 1>>, ret.exp_mu_var)
        /\ ~FracLess(<<ClipMax, 1>>, ret.exp_mu_var)
        /\ FracEq(ret.exp_r_var, fit_mme(args.X, args.weights).r)
        /\ FracEq(ret.exp_mu_var, fit_mme(args.X, args.weights).mean)
        /\ FracEq(ret.r, fit(args.X, args.weights, FALSE).r)
        /\ FracEq(ret.mean, fit(args.X, args.weights, FALSE).mean)

\* ------------------------------------------------ the claims on the hessian
\* Sum over observations of W[o] * L[o][c] * R[o][d].
Contraction(W, L, R) ==
    [c \in 1..Len(L[1]) |->
        [d \in 1..Len(R[1]) |->
            SumSeq([o \in 1..Len(L) |-> W[o] * L[o][c] * R[o][d]])]]

\* design @ constraints when the constraint matrix is set, else the design.
DesignTimesConstraints(design, constraints) ==
    IF constraints = NoConstraints THEN design
    ELSE [o \in 1..Len(design) |->
             [k \in 1..Len(constraints[1]) |->
                 SumSeq([c \in 1..Len(constraints) |->
                            design[o][c] * constraints[c][k]])]]

LocDesign == DesignTimesConstraints(args.design_loc, args.constraints_loc)
ScaleDesign == DesignTimesConstraints(args.design_scale, args.constraints_scale)

\* C19: with both parts trained the hessian is the square block matrix
\* [[aa, ab], [transpose(ab), bb]], aa leading, and it is symmetric; with only
\* the location part it is the aa block, with only the dispersion part the bb
\* block, and with neither the scalar zero.
C19_BlockMatrixSymmetric ==
    fn = "hessian_analytic" =>
        IF args.compute_a /\ args.compute_b
        THEN LET H == ret.H
                 aa == ret.blocks.aa
                 bb == ret.blocks.bb
                 ab == ret.blocks.ab
                 a == Len(aa)
                 b == Len(bb)
             IN  /\ Len(H) = a + b
                 /\ \A i \in 1..(a + b) : Len(H[i]) = a + b
                 /\ \A i \in 1..a, j \in 1..a : H[i][j] = aa[i][j]
                 /\ \A i \in 1..b, j \in 1..b : H[a + i][a + j] = bb[i][j]
                 /\ \A i \in 1..a, j \in 1..b :
                        H[i][a + j] = ab[i][j] /\ H[a + j][i] = ab[i][j]
                 /\ \A i \in 1..(a + b), j \in 1..(a + b) : H[i][j] = H[j][i]
        ELSE IF args.compute_a
        THEN ret.H = Contraction(args.W.aa, LocDesign, LocDesign)
        ELSE IF args.compute_b
        THEN ret.H = Contraction(args.W.bb, ScaleDesign, ScaleDesign)
        ELSE ret.H = 0

\* A 3 x 3 hessian with a cross block that is not zero and not constant.
C19_Witness ==
    /\ fn = "hessian_analytic"
    /\ args.compute_a /\ args.compute_b
    /\ args.constraints_loc = NoConstraints
    /\ Len(ret.H) = 3
    /\ ret.H[1][3] # 0
    /\ ret.H[1][3] # ret.H[2][3]
    /\ ret.H[3][1] = ret.H[1][3]
    /\ ret.H[1][2] # 0

\* C20: every block built is the contraction over observations of weight
\* times the outer product of the design rows, the designs projected by
\* their constraints when these are set: location with location for aa,
\* dispersion with dispersion for bb, location with dispersion for ab.
C20_BlocksAreContractions ==
    fn = "hessian_analytic" =>
        /\ args.compute_a =>
               ret.blocks.aa = Contraction(args.W.aa, LocDesign, LocDesign)
        /\ args.compute_b =>
               ret.blocks.bb = Contraction(args.W.bb, ScaleDesign, ScaleDesign)
        /\ (args.compute_a /\ args.compute_b) =>
               ret.blocks.ab = Contraction(args.W.ab, LocDesign, ScaleDesign)

\* Both parts constrained: the cross block is built from both projections.
C20_Witness ==
    /\ fn = "hessian_analytic"
    /\ args.compute_a /\ args.compute_b
    /\ args.constraints_loc = <<<<1>>, <<1>>>>
    /\ args.constraints_scale # NoConstraints
    /\ args.design_loc = <<<<1, 1>>, <<0, 1>>>>
    /\ ret.blocks.ab = Contraction(args.W.ab, LocDesign, ScaleDesign)
    /\ ret.blocks.ab # Contraction(args.W.ab, args.design_loc, args.design_scale)

C23_ConvergedAtTermination ==
    (pc = "idle" /\ convergence_criteria = "t_test" /\ stop = "True") =>
        \A f \in Features : converged[f]

\* C26: the gradient quantity compared against the tolerances is a norm: for
\* every evaluated feature it is non-negative in both blocks, and the
\* gradient branch holds only when every gradient entry of the feature is
\* below the tolerance in magnitude.
Magnitude(x) == IF x < 0 THEN 0 - x ELSE x

C26_GradientIsNorm ==
    observed # NoObservation =>
        /\ grad_sum(observed.jac_train, idx_train_loc) >= 0
        /\ grad_sum(observed.jac_train, idx_train_scale) >= 0
        /\ grad_below(observed.jac_train) =>
               /\ \A i \in idx_train_loc :
                      Magnitude(observed.jac_train[i])
                          < GTOL_LL_BY_FEATURE_LOC * num_observations
               /\ \A i \in idx_train_scale :
                      Magnitude(observed.jac_train[i])
                          < GTOL_LL_BY_FEATURE_SCALE * num_observations

\* ------------------------------ the per-feature loop in trust-region mode
\* estimator.py 282-288: the trial operation and the proposed step are run
\* first.
RunTrial ==
    /\ pc = "ll_loop"
    /\ args.trustregion_mode
    /\ \E f \in Features : ~converged_current[f]
    /\ pc' = "ll_trial"
    /\ lane' = 0
    /\ observed' = NoObservation
    /\ UNCHANGED <<convergence_criteria, stopping_criteria, loss_window_size,
                   global_step, params, converged, converged_current,
                   ll_current, params_at_convergence, window_vars, count_vars>>
    /\ UNCHANGED <<session_vars, sequence_vars, call_vars>>

\* estimator.py 290: the loss is re-evaluated on the trial (eval_set).
RunTrialEval ==
    /\ pc = "ll_trial"
    /\ pc' = "ll_trial_eval"
    /\ UNCHANGED <<convergence_criteria, stopping_criteria, loss_window_size,
                   global_step, params, converged, ll_vars, window_vars,
                   count_vars>>
    /\ UNCHANGED <<session_vars, sequence_vars, call_vars>>

\* Where the update operation of trust-region mode runs.
UpdateOpEarly(position) == position \in {"ll_trial", "ll_trial_eval"}

UpdateOpReady(position) == position = "ll_trial_eval"

\* estimator.py 292-297: the update operation, fetched with the step counter
\* and model_vars.updated.
RunUpdateOp ==
    /\ UpdateOpReady(pc)
    /\ pc' = "ll_iter"
    /\ global_step' = GlobalStepAfterUpdate(global_step)
    /\ UNCHANGED <<convergence_criteria, stopping_criteria, loss_window_size,
                   params, converged, ll_vars, window_vars, count_vars>>
    /\ UNCHANGED <<session_vars, sequence_vars, call_vars>>

\* train(convergence_criteria="all_converged_ll", trustregion_mode=...) on a
\* fresh estimator, estimator.py 165-173.
InitOrder ==
    /\ Untrained
    /\ OpenSession
    /\ NoSequence
    /\ fn = "train"
    /\ args \in [trustregion_mode : BOOLEAN]
    /\ ret = NoValue

NextOrder ==
    \/ \E criteria \in LossThresholds : TrainAllConverged(criteria)
    \/ ~args.trustregion_mode /\ RunUpdate
    \/ RunTrial
    \/ RunTrialEval
    \/ RunUpdateOp
    \/ \E k \in Features : EvaluateFeature(k)
    \/ UpdateConvergence
    \/ ReturnAllConverged

SpecOrder == InitOrder /\ [][NextOrder]_vars

\* C27: the per-feature loop is synchronous.  An update starts only from the
\* head of the loop with the mask of the previous iteration written (the
\* written mask equals the computed one), features are evaluated only after
\* the update and before the write, the mask in model_vars changes only at
\* the write that ends an iteration (after every feature was evaluated) or at
\* the reset that starts a stage, and in trust-region mode the update
\* operation runs only after the trial operation and a re-evaluation.
Updating == pc # "ll_iter" /\ pc' = "ll_iter"

C27_Synchronous ==
    [][/\ Updating =>
              /\ converged = converged_current
              /\ pc = (IF args.trustregion_mode THEN "ll_trial_eval" ELSE "ll_loop")
       /\ (pc # "ll_trial_eval" /\ pc' = "ll_trial_eval") => pc = "ll_trial"
       /\ (pc # "ll_trial" /\ pc' = "ll_trial") =>
              /\ pc = "ll_loop"
              /\ args.trustregion_mode
              /\ converged = converged_current
       /\ (lane' # lane /\ lane' # 0) => (pc = "ll_iter" /\ pc' = "ll_iter")
       /\ (pc = "ll_iter" /\ pc' # "ll_iter") =>
              /\ pc' = "ll_loop"
              /\ lane = NumFeatures
              /\ converged' = converged_current
       /\ converged' # converged => (pc = "ll_iter" \/ pc = "idle")
       /\ global_step' # global_step => Updating]_vars

\* In trust-region mode, the update operation of a later iteration is about
\* to run, gated by a written mask that holds a converged and an unconverged
\* feature.
C27_Witness ==
    /\ args.trustregion_mode
    /\ pc = "ll_trial_eval"
    /\ global_step >= 1
    /\ converged = converged_current
    /\ \E f \in Features : converged[f]
    /\ \E f \in Features : ~converged[f]

\* ------------------------------------------- NegativeBinomial (nb/util.py)
\* The keyword arguments of the constructor; a call is the set of those that
\* are not None.
ArgNames == {"total_count", "r", "variance", "p", "probs", "logits", "mean"}

\* A slot of the object holds None or a tensor.  A tensor is a node of the
\* graph: its name and, for one created by an accessor, which computation of
\* that quantity created it (0 for a tensor that exists since construction).
None == <<"None", 0>>

Tensor(name) == <<name, 0>>

\* The slots the accessors fill lazily: _log_mean, _log_r, __mean, __variance.
Derived == {"log_mean", "log_r", "mean", "variance"}

Methods == {"log_mu", "log_r", "mean", "variance"}

NoObject ==
    [total_count |-> None, logits |-> None, log_p |-> None, log_1p |-> None,
     log_mean |-> None, log_r |-> None, mean |-> None, variance |-> None,
     computed |-> [q \in Derived |-> 0]]

\* util.py 15-87, __init__ called with the arguments of given: the exception
\* it raises ("None" when it returns) and the fields of the object.
NegativeBinomial_init(given) ==
    LET r_given == "total_count" \in given \/ "r" \in given
        logits_given == "probs" \in given \/ "logits" \in given
        mean_arg == IF "mean" \in given THEN Tensor("mean") ELSE None
        variance_arg == IF "variance" \in given THEN Tensor("variance") ELSE None
        raise(exc) == [exc |-> exc, self |-> NoObject]
        object(log_mean, log_r, mean, variance) ==
            [exc |-> "None",
             self |-> [NoObject EXCEPT !.total_count = Tensor("r"),
                                       !.logits = Tensor("logits"),
                                       !.log_p = Tensor("log_p"),
                                       !.log_1p = Tensor("log_1p"),
                                       !.log_mean = log_mean,
                                       !.log_r = log_r,
                                       !.mean = mean,
                                       !.variance = variance]]
    IN  IF "p" \in given THEN raise("ValueError")
        ELSE IF ~r_given
        THEN IF "variance" \notin given THEN raise("ValueError")
             ELSE IF ~logits_given
             THEN IF "mean" \notin given THEN raise("ValueError")
                  ELSE object(Tensor("log_mean"), Tensor("log_r"),
                              mean_arg, variance_arg)
             ELSE raise("UnboundLocalError")
        ELSE IF ~logits_given
        THEN IF "mean" \notin given THEN raise("ValueError")
             ELSE object(Tensor("log_mean"), Tensor("log_r"),
                         mean_arg, variance_arg)
        ELSE object(None, None, mean_arg, variance_arg)

\* util.py 90, 96, 103, 110: the test `is None` of an accessor.
NeverCached(slot) == TRUE

IsNone(slot) == slot = None

\* A new tensor for quantity q is created and stored in its slot.
Compute(self, q) ==
    [self EXCEPT ![q] = <<q, self.computed[q] + 1>>,
                 !.computed[q] = self.computed[q] + 1]

\* util.py 89-93, _mean (reached through mean()).
NB_mean(self) ==
    LET after == IF IsNone(self.mean) THEN Compute(self, "mean") ELSE self
    IN  [self |-> after, out |-> after.mean]

\* util.py 95-99, _variance (reached through variance()).
NB_variance(self) ==
    LET after == IF IsNone(self.variance) THEN Compute(self, "variance") ELSE self
    IN  [self |-> after, out |-> after.variance]

\* util.py 101-106, log_mu: tf.log(self.mean()) on first access.
NB_log_mu(self) ==
    LET after == IF IsNone(self.log_mean)
                 THEN Compute(NB_mean(self).self, "log_mean")
                 ELSE self
    IN  [self |-> after, out |-> after.log_mean]

\* util.py 108-113, log_r: tf.log(self.r) on first access.
NB_log_r(self) ==
    LET after == IF IsNone(self.log_r) THEN Compute(self, "log_r") ELSE self
    IN  [self |-> after, out |-> after.log_r]

Construct(given) ==
    /\ fn = NoValue
    /\ fn' = "__init__"
    /\ args' = given
    /\ ret' = [exc |-> NegativeBinomial_init(given).exc,
               self |-> NegativeBinomial_init(given).self,
               out |-> None,
               accessed |-> [m \in Methods |-> 0]]
    /\ UNCHANGED <<train_vars, session_vars, sequence_vars>>

Access(method) ==
    /\ fn # NoValue
    /\ ret.exc = "None"
    /\ ret.accessed[method] < MaxAccess
    /\ LET result == CASE method = "log_mu" -> NB_log_mu(ret.self)
                       [] method = "log_r" -> NB_log_r(ret.self)
                       [] method = "mean" -> NB_mean(ret.self)
                       [] method = "variance" -> NB_variance(ret.self)
       IN  ret' = [ret EXCEPT !.self = result.self,
                              !.out = result.out,
                              !.accessed[method] = ret.accessed[method] + 1]
    /\ fn' = method
    /\ UNCHANGED args
    /\ UNCHANGED <<train_vars, session_vars, sequence_vars>>

InitNB == Untrained /\ OpenSession /\ NoSequence /\ NoCall

NextNB ==
    \/ \E given \in SUBSET ArgNames : Construct(given)
    \/ \E method \in Methods : Access(method)

SpecNB == InitNB /\ [][NextNB]_vars

\* The slot an accessor answers from.
SlotOf(method) == IF method = "log_mu" THEN "log_mean" ELSE method

\* C25: a NegativeBinomial object changes only by memoization.  On every
\* access the constructor's tensors (r, logits, log_p, log_1p) are unchanged,
\* a filled slot keeps its tensor, the accessor returns the tensor of its
\* slot (the one already there when the slot was filled, be it by an earlier
\* access or by the constructor), and no quantity is ever computed twice.
C25_Memoized ==
    [][(fn # NoValue /\ ret.exc = "None") =>
          /\ \A field \in {"total_count", "logits", "log_p", "log_1p"} :
                 ret'.self[field] = ret.self[field]
          /\ \A q \in Derived :
                 /\ ret.self[q] # None => ret'.self[q] = ret.self[q]
                 /\ ret'.self.computed[q] <= 1
                 /\ ret.self[q] # None =>
                        ret'.self.computed[q] = ret.self.computed[q]
          /\ fn' \in Methods =>
                 /\ ret'.out = ret'.self[SlotOf(fn')]
                 /\ ret'.out # None
                 /\ ret.self[SlotOf(fn')] # None =>
                        ret'.out = ret.self[SlotOf(fn')]]_vars

\* log_mu has been read twice on an object built without a mean: the mean
\* and its logarithm were each computed once.
C25_Witness ==
    /\ fn = "log_mu"
    /\ ret.accessed["log_mu"] = 2
    /\ ret.self.computed["log_mean"] = 1
    /\ ret.self.computed["mean"] = 1

\* C29: construction raises ValueError exactly when the arguments are
\* insufficient (no shape and no variance, or none of mean, probs, p,
\* logits), raises nothing else, treats p like probs when a shape is given,
\* and builds an object from each documented parameterization.
WithProbsForP(given) == (given \ {"p"}) \cup {"probs"}

C29_ConstructionAccepts ==
    fn # NoValue =>
        LET shape == "r" \in args \/ "total_count" \in args
            insufficient ==
                \/ ~shape /\ "variance" \notin args
                \/ args \cap {"mean", "probs", "p", "logits"} = {}
        IN  /\ ret.exc = "ValueError" <=> insufficient
            /\ (shape /\ "p" \in args) =>
                   ret.exc = NegativeBinomial_init(WithProbsForP(args)).exc
            /\ args \in {{"r", "mean"}, {"r", "probs"}, {"r", "logits"},
                         {"variance", "mean"}} =>
                   ret.exc = "None"

\* -------------------------------- the arguments of train (estimator.py)
\* The criteria train is called with.
TrainCriteria == OtherCriteria \cup {"step", "all_converged_ll"}

\* The keyword arguments a caller may leave out (None).
Optional == {"loss_window_size", "stopping_criteria", "loss", "train_op", "feed_dict"}

\* estimator.py 208-209.
DefaultWindow == 100

\* estimator.py 210-216, as a fraction <<numerator, denominator>>.
DefaultStopping(name) ==
    IF name = "step" THEN <<5000, 1>>
    ELSE IF name \in {"difference", "moving_agerage", "absolute_moving_average"}
    THEN <<1, 100000>>
    ELSE <<1, 20>>

\* estimator.py 207-222: what train works with, for the criterion name and
\* the set of keyword arguments left out.  A supplied window is MaxWindow, a
\* supplied threshold 1/Den; tensors, operations and feeds are named.
Resolved(name, omitted) ==
    [loss_window_size |-> IF "loss_window_size" \in omitted
                          THEN DefaultWindow ELSE MaxWindow,
     stopping_criteria |-> IF "stopping_criteria" \in omitted
                           THEN DefaultStopping(name) ELSE <<1, Den>>,
     loss |-> IF "loss" \in omitted THEN "model.loss" ELSE "loss",
     train_op |-> IF "train_op" \in omitted THEN "model.train_op" ELSE "train_op",
     feed_dict |-> IF "feed_dict" \in omitted THEN "None" ELSE "feed_dict",
     evaluated |-> <<>>]

\* estimator.py 142: the loss _train_to_convergence evaluates and stores in
\* the window.
WindowLoss(a) == [tensor |-> "model.loss", feed_dict |-> "None"]

\* estimator.py 240-243: the loss the step loop evaluates.
StepLoss(a) == [tensor |-> a.loss, feed_dict |-> a.feed_dict]

TrainCall(name, omitted) ==
    /\ fn = NoValue
    /\ fn' = "train"
    /\ args' = [convergence_criteria |-> name, omitted |-> omitted]
    /\ ret' = Resolved(name, omitted)
    /\ UNCHANGED <<train_vars, session_vars, sequence_vars>>

\* One pass of a loop on the global loss, estimator.py 136-151 and 234-243,
\* keeping which loss it evaluated.
EvaluateLoss ==
    /\ fn = "train"
    /\ args.convergence_criteria # "all_converged_ll"
    /\ Len(ret.evaluated) < MaxLogged
    /\ ret' = [ret EXCEPT !.evaluated =
                   Append(ret.evaluated,
                          IF args.convergence_criteria = "step"
                          THEN StepLoss(ret) ELSE WindowLoss(ret))]
    /\ UNCHANGED <<fn, args>>
    /\ UNCHANGED <<train_vars, session_vars, sequence_vars>>

InitArgs == Untrained /\ OpenSession /\ NoSequence /\ NoCall

NextArgs ==
    \/ \E name \in TrainCriteria, omitted \in SUBSET Optional :
           TrainCall(name, omitted)
    \/ EvaluateLoss

SpecArgs == InitArgs /\ [][NextArgs]_vars

\* C28: every loss value a stage evaluates for its loss window or its log is
\* an evaluation of the loss the stage works with (the supplied one when a
\* loss was passed), run with the supplied feed_dict.
C28_SuppliedLossUsed ==
    fn = "train" =>
        \A i \in 1..Len(ret.evaluated) :
            ret.evaluated[i] = [tensor |-> ret.loss, feed_dict |-> ret.feed_dict]

\* C30: with stopping_criteria left out the threshold is 5000 for step, 1e-5
\* for difference, moving_average and absolute_moving_average, and 0.05 for
\* every other criterion; with loss_window_size left out the window is 100.
C30_Defaults ==
    fn = "train" =>
        /\ "loss_window_size" \in args.omitted => ret.loss_window_size = 100
        /\ "stopping_criteria" \in args.omitted =>
               ret.stopping_criteria =
                   (IF args.convergence_criteria = "step" THEN <<5000, 1>>
                    ELSE IF args.convergence_criteria \in
                            {"difference", "moving_average",
                             "absolute_moving_average"}
                    THEN <<1, 100000>>
                    ELSE <<1, 20>>)
====
